---- MODULE Spec2Model ----
(***************************************************************************)
(* rustBot (src/main.py): a Discord bot that polls a Rust+ team roster,    *)
(* tracks presence / idle state / movement per player and persists the     *)
(* accumulated statistics to player_stats.json.                            *)
(*                                                                         *)
(* Time is counted in units of 1/Res second, so that the int() truncations *)
(* of the source are visible.  Coordinates are counted in half grid units, *)
(* so that round() is visible.                                             *)
(***************************************************************************)
EXTENDS Integers, Sequences, FiniteSets, TLC

\* ---------------------------------------------------------------- bounds
Res == 2            \* clock units per second
MaxTime == 180      \* horizon of Spec, in seconds
TrackMaxTime == 120 \* horizon of TrackSpec, in seconds
RestartMaxTime == 60 \* horizon of RestartSpec, in seconds
MaxRestarts == 1    \* restarts of the process in one behaviour of RestartSpec
IdleMaxTicks == 62  \* horizon of IdleSpec, in polling periods
IdleMaxMoves == 1   \* position changes in one behaviour of IdleSpec

\* ------------------------------------------------------ program constants
PollPeriod == 60     \* asyncio.sleep(60) at the end of a polling cycle
EmptyPeriod == 10    \* asyncio.sleep(10) when no team data is available
SavePeriod == 60     \* asyncio.sleep(60) of save_player_data_loop
ConnectPause == 5    \* asyncio.sleep(5) between connection attempts
MaxRetries == 5      \* while retries < 5
FirstThreshold == 5  \* idle_notify_intervals[sid] = 5
ThresholdCap == 60   \* min(notify_at * 2, 60)
AfkTicks == 5        \* if idle_timers[sid] >= 5
TopN == 10           \* ranked[:10]

\* ------------------------------------------------------------- inputs
Ids == {7, 17}
Names == {"A", "B"}
Latency == {0, 1}    \* duration of one roster fetch, in clock units

\* ------------------------------------------------------- partial maps
Empty == <<>>
Get(f, k, d) == IF k \in DOMAIN f THEN f[k] ELSE d
Put(f, k, v) == [x \in (DOMAIN f) \cup {k} |-> IF x = k THEN v ELSE f[x]]

Min(S) == CHOOSE x \in S : \A y \in S : x <= y

\* int(x) of a non-negative float, x given in clock units
IntSec(t) == t \div Res

\* round(x): Python 3 rounds halves to the even neighbour; h is in half units
Round(h) ==
  LET q == h \div 2
  IN  IF h % 2 = 0 THEN q ELSE IF q % 2 = 0 THEN q ELSE q + 1

\* ------------------------------------------------------- str() and int()
DigitChar == <<"0", "1", "2", "3", "4", "5", "6", "7", "8", "9">>

\* the digits of n written least significant first
RECURSIVE NatToStrReversed(_)
NatToStrReversed(n) ==
  IF n < 10 THEN <<DigitChar[n + 1]>>
  ELSE <<DigitChar[(n % 10) + 1]>> \o NatToStrReversed(n \div 10)

RECURSIVE NatToStr(_)
NatToStr(n) ==
  IF n < 10 THEN <<DigitChar[n + 1]>>
  ELSE Append(NatToStr(n \div 10), DigitChar[(n % 10) + 1])

\* str(k) of an int
IntToStr(n) == IF n < 0 THEN <<"-">> \o NatToStr(0 - n) ELSE NatToStr(n)

CharDigit(c) == (CHOOSE i \in 1..10 : DigitChar[i] = c) - 1

RECURSIVE StrToNat(_)
StrToNat(s) ==
  IF Len(s) = 1 THEN CharDigit(s[1])
  ELSE 10 * StrToNat(SubSeq(s, 1, Len(s) - 1)) + CharDigit(s[Len(s)])

\* int(k) of a decimal string
StrToInt(s) == IF s[1] = "-" THEN 0 - StrToNat(Tail(s)) ELSE StrToNat(s)

\* ------------------------------------------------------ format_minutes
NoText == [fmt |-> "none", h |-> 0, m |-> 0]

\* f"{minutes//60}h {minutes%60}m" if minutes >= 60 else f"{minutes}m"
format_minutes(seconds) ==
  LET minutes == seconds \div 60
  IN  IF minutes >= 60
      THEN [fmt |-> "hm", h |-> minutes \div 60, m |-> minutes % 60]
      ELSE [fmt |-> "m", h |-> 0, m |-> minutes]

\* ----------------------------------------------------------------- state
VARIABLES
  now,                    \* time.time(), in clock units
  proc,                   \* "running", "killed", "load_error"
  restarts,                 \* number of times the process was started again
  file,                   \* player_stats.json
  player_seen,            \* PlayerStats: sid -> [name, first, last, total, idle]
  seen_keys,              \* the keys of player_seen in insertion (iteration) order
  last_update,            \* sid -> time of the last update_presence
  player_online,          \* sid -> last observed is_online
  last_positions,         \* sid -> last recorded rounded position
  idle_timers,            \* sid -> consecutive unchanged-position observations
  idle_notify_intervals,  \* sid -> next idle notification threshold
  movement_trail,         \* sid -> sequence of <<now, pos>>
  connected,              \* the Rust+ socket is connected
  readyPc,                \* on_ready: "init", "try", "sleep", "done", "failed"
  retries,                \* on_ready's local retries
  connWake,               \* end of on_ready's asyncio.sleep(5)
  pollWake,               \* end of rust_polling_loop's current sleep
  saveWake,               \* end of save_player_data_loop's current sleep
  savePc,                 \* save_player_data_loop: "sleep", "writing"
  notes,                  \* notifications scheduled by the last polling cycle
  lastPoll,               \* outcome of the last polling cycle
  failStreak,             \* consecutive failed roster fetches
  recovered,              \* failed fetches in a row that the last processed roster ended
  team_info,              \* members of the roster fetched by the last cycle
  saved,                  \* PlayerStats written by the last completed save
  reply,                  \* what the last chat command sent back
  pending,                \* send_to_discord tasks created and not finished, oldest first
  delivered               \* the messages in the channel, in order of arrival

tracking == <<player_seen, seen_keys, last_update, player_online, last_positions,
              idle_timers, idle_notify_intervals, movement_trail>>
conn == <<connected, readyPc, retries, connWake>>
saving == <<file, saveWake, savePc, saved>>
polling == <<pollWake, notes, lastPoll, failStreak, recovered, team_info>>
chat == <<reply, pending, delivered>>
vars == <<now, proc, restarts, tracking, conn, saving, polling, chat>>

\* the file: absent, truncated / incomplete JSON, or a complete JSON object
NoFile == [state |-> "absent", data |-> Empty, keys |-> <<>>]
PartialFile == [state |-> "partial", data |-> Empty, keys |-> <<>>]

\* ------------------------------------------------------ update_presence
Note(kind, player, text) ==
  [kind |-> kind, sid |-> player.steam_id, name |-> player.name, text |-> text]

\* the tracked state as one record, threaded through a polling cycle
Tracked ==
  [seen |-> player_seen, keys |-> seen_keys, upd |-> last_update, online |-> player_online,
   pos |-> last_positions, timers |-> idle_timers,
   intervals |-> idle_notify_intervals, trail |-> movement_trail,
   notes |-> <<>>]

\* update_presence with the idle accrual moved out of "if player.is_online"
update_presence_idle_always(st, player, t) ==
  LET sid == player.steam_id
      seen0 == IF sid \in DOMAIN st.seen THEN st.seen
               ELSE Put(st.seen, sid,
                        [name |-> player.name, first |-> IntSec(t),
                         last |-> IntSec(t), total |-> 0, idle |-> 0])
      upd0 == IF sid \in DOMAIN st.upd THEN st.upd[sid] ELSE t
      delta == IntSec(t - upd0)
      was == Get(st.online, sid, FALSE)
      notes1 == IF ~was /\ player.is_online
                  THEN Append(st.notes, Note("LoggedIn", player, NoText))
                ELSE IF was /\ ~player.is_online
                  THEN Append(st.notes, Note("LoggedOut", player, NoText))
                ELSE st.notes
      rec == seen0[sid]
      rec0 == [rec EXCEPT !.idle = IF Get(st.timers, sid, 0) >= 1
                                   THEN @ + delta ELSE @]
      rec1 == IF player.is_online
              THEN [rec0 EXCEPT !.total = @ + delta, !.last = IntSec(t)]
              ELSE rec0
  IN  [st EXCEPT !.seen = Put(seen0, sid, rec1),
                 !.keys = IF sid \in DOMAIN st.seen THEN @ ELSE Append(@, sid),
                 !.upd = Put(st.upd, sid, t),
                 !.online = Put(st.online, sid, player.is_online),
                 !.notes = notes1]

\* update_presence moving the baseline timestamp only while the player is online
update_presence_upd_when_online(st, player, t) ==
  LET sid == player.steam_id
      seen0 == IF sid \in DOMAIN st.seen THEN st.seen
               ELSE Put(st.seen, sid,
                        [name |-> player.name, first |-> IntSec(t),
                         last |-> IntSec(t), total |-> 0, idle |-> 0])
      upd0 == IF sid \in DOMAIN st.upd THEN st.upd[sid] ELSE t
      delta == IntSec(t - upd0)
      was == Get(st.online, sid, FALSE)
      notes1 == IF ~was /\ player.is_online
                  THEN Append(st.notes, Note("LoggedIn", player, NoText))
                ELSE IF was /\ ~player.is_online
                  THEN Append(st.notes, Note("LoggedOut", player, NoText))
                ELSE st.notes
      rec == seen0[sid]
      rec1 == IF player.is_online
              THEN [rec EXCEPT !.total = @ + delta,
                               !.idle = IF Get(st.timers, sid, 0) >= 1
                                        THEN @ + delta ELSE @,
                               !.last = IntSec(t)]
              ELSE rec
  IN  [st EXCEPT !.seen = Put(seen0, sid, rec1),
                 !.keys = IF sid \in DOMAIN st.seen THEN @ ELSE Append(@, sid),
                 !.upd = IF player.is_online \/ sid \notin DOMAIN st.upd
                        THEN Put(st.upd, sid, t) ELSE st.upd,
                 !.online = Put(st.online, sid, player.is_online),
                 !.notes = notes1]

\* update_presence comparing the flags with "!=": an absent flag differs
\* from False, so a first sighting while offline announces a logout
update_presence_flag_differs(st, player, t) ==
  LET sid == player.steam_id
      seen0 == IF sid \in DOMAIN st.seen THEN st.seen
               ELSE Put(st.seen, sid,
                        [name |-> player.name, first |-> IntSec(t),
                         last |-> IntSec(t), total |-> 0, idle |-> 0])
      upd0 == IF sid \in DOMAIN st.upd THEN st.upd[sid] ELSE t
      delta == IntSec(t - upd0)
      known == sid \in DOMAIN st.online
      notes1 == IF player.is_online /\ (~known \/ ~st.online[sid])
                  THEN Append(st.notes, Note("LoggedIn", player, NoText))
                ELSE IF ~player.is_online /\ (~known \/ st.online[sid])
                  THEN Append(st.notes, Note("LoggedOut", player, NoText))
                ELSE st.notes
      rec == seen0[sid]
      rec1 == IF player.is_online
              THEN [rec EXCEPT !.total = @ + delta,
                               !.idle = IF Get(st.timers, sid, 0) >= 1
                                        THEN @ + delta ELSE @,
                               !.last = IntSec(t)]
              ELSE rec
  IN  [st EXCEPT !.seen = Put(seen0, sid, rec1),
                 !.keys = IF sid \in DOMAIN st.seen THEN @ ELSE Append(@, sid),
                 !.upd = Put(st.upd, sid, t),
                 !.online = Put(st.online, sid, player.is_online),
                 !.notes = notes1]

update_presence(st, player, t) ==
  LET sid == player.steam_id
      seen0 == IF sid \in DOMAIN st.seen THEN st.seen
               ELSE Put(st.seen, sid,
                        [name |-> player.name, first |-> IntSec(t),
                         last |-> IntSec(t), total |-> 0, idle |-> 0])
      upd0 == IF sid \in DOMAIN st.upd THEN st.upd[sid] ELSE t
      delta == IntSec(t - upd0)
      was == Get(st.online, sid, FALSE)
      notes1 == IF ~was /\ player.is_online
                  THEN Append(st.notes, Note("LoggedIn", player, NoText))
                ELSE IF was /\ ~player.is_online
                  THEN Append(st.notes, Note("LoggedOut", player, NoText))
                ELSE st.notes
      rec == seen0[sid]
      rec1 == IF player.is_online
              THEN [rec EXCEPT !.total = @ + delta,
                               !.idle = IF Get(st.timers, sid, 0) >= 1
                                        THEN @ + delta ELSE @,
                               !.last = IntSec(t)]
              ELSE rec
  IN  [st EXCEPT !.seen = Put(seen0, sid, rec1),
                 !.keys = IF sid \in DOMAIN st.seen THEN @ ELSE Append(@, sid),
                 !.upd = Put(st.upd, sid, t),
                 !.online = Put(st.online, sid, player.is_online),
                 !.notes = notes1]

\* ---------------------------------------------------------- handle_idle
\* handle_idle doubling the threshold without the ceiling of 60
handle_idle_no_cap(st, player, t) ==
  LET sid == player.steam_id
      pos == <<Round(player.x), Round(player.y)>>
      lastpos == Get(st.pos, sid, pos)
      timer == Get(st.timers, sid, 0)
      notify_at == Get(st.intervals, sid, FirstThreshold)
      trail1 == Put(st.trail, sid, Append(Get(st.trail, sid, <<>>), <<t, pos>>))
  IN  IF pos = lastpos
      THEN LET fire == (timer + 1 = notify_at)
           IN [st EXCEPT
                 !.pos = Put(st.pos, sid, lastpos),
                 !.timers = Put(st.timers, sid, timer + 1),
                 !.intervals = Put(st.intervals, sid,
                                   IF fire THEN notify_at * 2 ELSE notify_at),
                 !.trail = trail1,
                 !.notes = IF fire
                           THEN Append(st.notes,
                                       Note("IdleWarning", player,
                                            format_minutes(notify_at * 60)))
                           ELSE st.notes]
      ELSE [st EXCEPT
              !.pos = Put(st.pos, sid, pos),
              !.timers = Put(st.timers, sid, 0),
              !.intervals = Put(st.intervals, sid, FirstThreshold),
              !.trail = trail1,
              !.notes = IF timer >= AfkTicks
                        THEN Append(st.notes,
                                    Note("NoLongerIdle", player,
                                         format_minutes(timer)))
                        ELSE st.notes]

\* handle_idle announcing the end of an idle spell only after more than five ticks
handle_idle_afk_strict(st, player, t) ==
  LET sid == player.steam_id
      pos == <<Round(player.x), Round(player.y)>>
      lastpos == Get(st.pos, sid, pos)
      timer == Get(st.timers, sid, 0)
      notify_at == Get(st.intervals, sid, FirstThreshold)
      trail1 == Put(st.trail, sid, Append(Get(st.trail, sid, <<>>), <<t, pos>>))
  IN  IF pos = lastpos
      THEN LET fire == (timer + 1 = notify_at)
           IN [st EXCEPT
                 !.pos = Put(st.pos, sid, lastpos),
                 !.timers = Put(st.timers, sid, timer + 1),
                 !.intervals = Put(st.intervals, sid,
                                   IF fire
                                   THEN (IF notify_at * 2 < ThresholdCap
                                         THEN notify_at * 2 ELSE ThresholdCap)
                                   ELSE notify_at),
                 !.trail = trail1,
                 !.notes = IF fire
                           THEN Append(st.notes,
                                       Note("IdleWarning", player,
                                            format_minutes(notify_at * 60)))
                           ELSE st.notes]
      ELSE [st EXCEPT
              !.pos = Put(st.pos, sid, pos),
              !.timers = Put(st.timers, sid, 0),
              !.intervals = Put(st.intervals, sid, FirstThreshold),
              !.trail = trail1,
              !.notes = IF timer > AfkTicks
                        THEN Append(st.notes,
                                    Note("NoLongerIdle", player,
                                         format_minutes(timer)))
                        ELSE st.notes]

\* handle_idle warning whenever the counter is at or past the threshold
handle_idle_fires_at_least(st, player, t) ==
  LET sid == player.steam_id
      pos == <<Round(player.x), Round(player.y)>>
      lastpos == Get(st.pos, sid, pos)
      timer == Get(st.timers, sid, 0)
      notify_at == Get(st.intervals, sid, FirstThreshold)
      trail1 == Put(st.trail, sid, Append(Get(st.trail, sid, <<>>), <<t, pos>>))
  IN  IF pos = lastpos
      THEN LET fire == (timer + 1 >= notify_at)
           IN [st EXCEPT
                 !.pos = Put(st.pos, sid, lastpos),
                 !.timers = Put(st.timers, sid, timer + 1),
                 !.intervals = Put(st.intervals, sid,
                                   IF fire
                                   THEN (IF notify_at * 2 < ThresholdCap
                                         THEN notify_at * 2 ELSE ThresholdCap)
                                   ELSE notify_at),
                 !.trail = trail1,
                 !.notes = IF fire
                           THEN Append(st.notes,
                                       Note("IdleWarning", player,
                                            format_minutes(notify_at * 60)))
                           ELSE st.notes]
      ELSE [st EXCEPT
              !.pos = Put(st.pos, sid, pos),
              !.timers = Put(st.timers, sid, 0),
              !.intervals = Put(st.intervals, sid, FirstThreshold),
              !.trail = trail1,
              !.notes = IF timer >= AfkTicks
                        THEN Append(st.notes,
                                    Note("NoLongerIdle", player,
                                         format_minutes(timer)))
                        ELSE st.notes]

\* handle_idle recording a trail point only when the position changed
handle_idle_trail_on_move(st, player, t) ==
  LET sid == player.steam_id
      pos == <<Round(player.x), Round(player.y)>>
      lastpos == Get(st.pos, sid, pos)
      timer == Get(st.timers, sid, 0)
      notify_at == Get(st.intervals, sid, FirstThreshold)
      trail0 == Get(st.trail, sid, <<>>)
      trail1 == Put(st.trail, sid, Append(trail0, <<t, pos>>))
  IN  IF pos = lastpos
      THEN LET fire == (timer + 1 = notify_at)
           IN [st EXCEPT
                 !.pos = Put(st.pos, sid, lastpos),
                 !.timers = Put(st.timers, sid, timer + 1),
                 !.intervals = Put(st.intervals, sid,
                                   IF fire
                                   THEN (IF notify_at * 2 < ThresholdCap
                                         THEN notify_at * 2 ELSE ThresholdCap)
                                   ELSE notify_at),
                 !.trail = Put(st.trail, sid, trail0),
                 !.notes = IF fire
                           THEN Append(st.notes,
                                       Note("IdleWarning", player,
                                            format_minutes(notify_at * 60)))
                           ELSE st.notes]
      ELSE [st EXCEPT
              !.pos = Put(st.pos, sid, pos),
              !.timers = Put(st.timers, sid, 0),
              !.intervals = Put(st.intervals, sid, FirstThreshold),
              !.trail = trail1,
              !.notes = IF timer >= AfkTicks
                        THEN Append(st.notes,
                                    Note("NoLongerIdle", player,
                                         format_minutes(timer)))
                        ELSE st.notes]

handle_idle(st, player, t) ==
  LET sid == player.steam_id
      pos == <<Round(player.x), Round(player.y)>>
      lastpos == Get(st.pos, sid, pos)
      timer == Get(st.timers, sid, 0)
      notify_at == Get(st.intervals, sid, FirstThreshold)
      trail1 == Put(st.trail, sid, Append(Get(st.trail, sid, <<>>), <<t, pos>>))
  IN  IF pos = lastpos
      THEN LET fire == (timer + 1 = notify_at)
           IN [st EXCEPT
                 !.pos = Put(st.pos, sid, lastpos),
                 !.timers = Put(st.timers, sid, timer + 1),
                 !.intervals = Put(st.intervals, sid,
                                   IF fire
                                   THEN (IF notify_at * 2 < ThresholdCap
                                         THEN notify_at * 2 ELSE ThresholdCap)
                                   ELSE notify_at),
                 !.trail = trail1,
                 !.notes = IF fire
                           THEN Append(st.notes,
                                       Note("IdleWarning", player,
                                            format_minutes(notify_at * 60)))
                           ELSE st.notes]
      ELSE [st EXCEPT
              !.pos = Put(st.pos, sid, pos),
              !.timers = Put(st.timers, sid, 0),
              !.intervals = Put(st.intervals, sid, FirstThreshold),
              !.trail = trail1,
              !.notes = IF timer >= AfkTicks
                        THEN Append(st.notes,
                                    Note("NoLongerIdle", player,
                                         format_minutes(timer)))
                        ELSE st.notes]

\* one iteration with the idle detection run before the presence update
observe_idle_first(st, player, t) ==
  LET st1 == IF player.is_online THEN handle_idle(st, player, t) ELSE st
  IN  update_presence(st1, player, t)

\* one iteration that gives up control after the presence update
observe_stops_after_presence(st, player, t) ==
  update_presence(st, player, t)

\* one iteration that starts the idle detection afresh when the player logs in
observe_login_resets(st, player, t) ==
  LET st1 == update_presence(st, player, t)
      sid == player.steam_id
      st2 == IF Get(st.online, sid, FALSE) \/ sid \notin DOMAIN st.timers THEN st1
             ELSE [st1 EXCEPT !.timers = Put(@, sid, 0),
                              !.intervals = Put(@, sid, FirstThreshold)]
  IN  IF player.is_online THEN handle_idle(st2, player, t) ELSE st1

\* one iteration of "for player in team_info.members"
observe(st, player, t) ==
  LET st1 == update_presence(st, player, t)
  IN  IF player.is_online THEN handle_idle(st1, player, t) ELSE st1

RECURSIVE process_members(_, _, _)
process_members(st, members, t) ==
  IF members = <<>> THEN st
  ELSE process_members(observe(st, Head(members), t), Tail(members), t)

\* --------------------------------------------------------- persistence
\* json.dump({str(k): v for k, v in player_seen.items()}, f, indent=2)
JsonDump(seen) ==
  [k \in {IntToStr(i) : i \in DOMAIN seen} |->
     LET v == seen[CHOOSE i \in DOMAIN seen : IntToStr(i) = k]
     IN  [name |-> v.name, first |-> IntToStr(v.first), last |-> IntToStr(v.last),
          total |-> IntToStr(v.total), idle |-> IntToStr(v.idle)]]

\* {int(k): v for k, v in json.load(f).items()}
JsonLoad(data) ==
  [i \in {StrToInt(k) : k \in DOMAIN data} |->
     LET v == data[CHOOSE k \in DOMAIN data : StrToInt(k) = i]
     IN  [name |-> v.name, first |-> StrToInt(v.first), last |-> StrToInt(v.last),
          total |-> StrToInt(v.total), idle |-> StrToInt(v.idle)]]

\* the keys are written and read back in the mapping's iteration order
JsonDumpKeys(keys) == [i \in 1..Len(keys) |-> IntToStr(keys[i])]
JsonLoadKeys(keys) == [i \in 1..Len(keys) |-> StrToInt(keys[i])]

\* ------------------------------------------------------------------ Init
NoReply == [cmd |-> "none", lines |-> <<>>]

Init ==
  /\ now = 0
  /\ proc = "running"
  /\ restarts = 0
  /\ file = NoFile
  /\ player_seen = Empty
  /\ seen_keys = <<>>
  /\ last_update = Empty
  /\ player_online = Empty
  /\ last_positions = Empty
  /\ idle_timers = Empty
  /\ idle_notify_intervals = Empty
  /\ movement_trail = Empty
  /\ connected = FALSE
  /\ readyPc = "init"
  /\ retries = 0
  /\ connWake = 0
  /\ pollWake = 0
  /\ saveWake = 0
  /\ savePc = "sleep"
  /\ notes = <<>>
  /\ lastPoll = "none"
  /\ failStreak = 0
  /\ recovered = 0
  /\ team_info = <<>>
  /\ saved = Empty
  /\ reply = NoReply
  /\ pending = <<>>
  /\ delivered = <<>>

\* the module-level state of a fresh interpreter
FreshMemory ==
  /\ last_update' = Empty
  /\ player_online' = Empty
  /\ last_positions' = Empty
  /\ idle_timers' = Empty
  /\ idle_notify_intervals' = Empty
  /\ movement_trail' = Empty
  /\ connected' = FALSE
  /\ readyPc' = "init"
  /\ retries' = 0
  /\ connWake' = now
  /\ pollWake' = now
  /\ saveWake' = now
  /\ savePc' = "sleep"
  /\ notes' = <<>>
  /\ lastPoll' = "none"
  /\ failStreak' = 0
  /\ recovered' = 0
  /\ team_info' = <<>>
  /\ pending' = <<>>

\* main(): load_player_data(), then the three coroutines are gathered.
\* json.load raises on a file that is not complete JSON; only
\* FileNotFoundError is caught, so the process ends before the loops start.
Start ==
  /\ proc # "running"
  /\ restarts < MaxRestarts
  /\ restarts' = restarts + 1
  /\ FreshMemory
  /\ UNCHANGED <<now, file, saved, reply, delivered>>
  /\ IF file.state = "partial"
     THEN /\ proc' = "load_error"
          /\ player_seen' = Empty
          /\ seen_keys' = <<>>
     ELSE /\ proc' = "running"
          /\ player_seen' = IF file.state = "absent" THEN Empty
                            ELSE JsonLoad(file.data)
          /\ seen_keys' = JsonLoadKeys(file.keys)

\* abrupt termination of the process: memory is lost, the file stays
Kill ==
  /\ proc = "running"
  /\ restarts < MaxRestarts
  /\ proc' = "killed"
  /\ player_seen' = Empty
  /\ seen_keys' = <<>>
  /\ FreshMemory
  /\ UNCHANGED <<now, restarts, file, saved, reply, delivered>>

\* the event loop runs a callback only between awaits of the others
Loop == proc = "running" /\ savePc = "sleep"

\* -------------------------------------------------------------- on_ready
on_ready ==
  /\ Loop
  /\ readyPc = "init"
  /\ readyPc' = "try"
  /\ retries' = 0
  /\ UNCHANGED <<now, proc, restarts, chat, tracking, connected, connWake, saving, polling>>

\* await socket.connect(); await socket.get_info() both succeed
ConnectOk ==
  /\ Loop
  /\ readyPc = "try"
  /\ connected' = TRUE
  /\ readyPc' = "done"
  /\ retries' = 0
  /\ UNCHANGED <<now, proc, restarts, chat, tracking, connWake, saving, polling>>

\* socket.connect() raises (infoFails = FALSE) or connects and get_info()
\* raises (infoFails = TRUE): retries += 1, sleep 5
ConnectFail(infoFails) ==
  /\ Loop
  /\ readyPc = "try"
  /\ connected' = (connected \/ infoFails)
  /\ retries' = retries + 1
  /\ readyPc' = "sleep"
  /\ connWake' = now + ConnectPause * Res
  /\ UNCHANGED <<now, proc, restarts, chat, tracking, saving, polling>>

\* the sleep ends: "while retries < 5", else the loop's else branch returns
ConnectWake ==
  /\ Loop
  /\ readyPc = "sleep"
  /\ now >= connWake
  /\ IF retries < MaxRetries
     THEN readyPc' = "try" /\ retries' = retries
     ELSE readyPc' = "failed" /\ retries' = 0
  /\ UNCHANGED <<now, proc, restarts, chat, tracking, connected, connWake, saving, polling>>

\* ------------------------------------------------ save_player_data_loop
\* open(SAVE_FILE, "w") truncates the file
SaveOpen ==
  /\ Loop
  /\ now >= saveWake
  /\ file' = PartialFile
  /\ savePc' = "writing"
  /\ UNCHANGED <<now, proc, restarts, chat, tracking, conn, saveWake, saved, polling>>

\* open() raises: caught, printed, sleep 60
SaveOpenFail ==
  /\ Loop
  /\ now >= saveWake
  /\ saveWake' = now + SavePeriod * Res
  /\ UNCHANGED <<now, proc, restarts, chat, tracking, conn, file, savePc, saved, polling>>

\* json.dump writes the mapping and the with block closes the file
SaveDump ==
  /\ proc = "running"
  /\ savePc = "writing"
  /\ file' = [state |-> "complete", data |-> JsonDump(player_seen),
              keys |-> JsonDumpKeys(seen_keys)]
  /\ saved' = player_seen
  /\ savePc' = "sleep"
  /\ saveWake' = now + SavePeriod * Res
  /\ UNCHANGED <<now, proc, restarts, chat, tracking, conn, polling>>

\* json.dump raises while writing: caught, printed, sleep 60
SaveDumpFail ==
  /\ proc = "running"
  /\ savePc = "writing"
  /\ savePc' = "sleep"
  /\ saveWake' = now + SavePeriod * Res
  /\ UNCHANGED <<now, proc, restarts, chat, tracking, conn, file, saved, polling>>

\* ---------------------------------------------------- rust_polling_loop
PollReady == Loop /\ now >= pollWake

\* PollFail with the baseline timestamps dropped by the except branch
PollFail_forgets(lat) ==
  /\ PollReady
  /\ now' = now + lat
  /\ pollWake' = now' + PollPeriod * Res
  /\ notes' = <<>>
  /\ lastPoll' = "fail"
  /\ failStreak' = failStreak + 1
  /\ recovered' = recovered
  /\ team_info' = <<>>
  /\ last_update' = Empty
  /\ UNCHANGED <<proc, restarts, chat, player_seen, seen_keys, player_online, last_positions,
                 idle_timers, idle_notify_intervals, movement_trail, conn, saving>>

\* PollFail with a wait that grows with the number of failures in a row
PollFail_backoff(lat) ==
  /\ PollReady
  /\ now' = now + lat
  /\ pollWake' = now' + PollPeriod * Res * (failStreak + 1)
  /\ notes' = <<>>
  /\ lastPoll' = "fail"
  /\ failStreak' = failStreak + 1
  /\ recovered' = recovered
  /\ team_info' = <<>>
  /\ UNCHANGED <<proc, restarts, chat, tracking, conn, saving>>

\* get_team_info() raises: caught, printed, sleep 60
PollFail(lat) ==
  /\ PollReady
  /\ now' = now + lat
  /\ pollWake' = now' + PollPeriod * Res
  /\ notes' = <<>>
  /\ lastPoll' = "fail"
  /\ failStreak' = failStreak + 1
  /\ recovered' = recovered
  /\ team_info' = <<>>
  /\ UNCHANGED <<proc, restarts, chat, tracking, conn, saving>>

\* team_info is None or has no members: sleep 10, continue
PollEmpty(lat) ==
  /\ PollReady
  /\ connected
  /\ now' = now + lat
  /\ pollWake' = now' + EmptyPeriod * Res
  /\ notes' = <<>>
  /\ lastPoll' = "empty"
  /\ failStreak' = 0
  /\ recovered' = recovered
  /\ team_info' = <<>>
  /\ UNCHANGED <<proc, restarts, chat, tracking, conn, saving>>

\* a roster arrives: every member is processed, then sleep 60
PollOk(members, lat) ==
  /\ PollReady
  /\ connected
  /\ now' = now + lat
  /\ LET st == process_members(Tracked, members, now')
     IN  /\ player_seen' = st.seen
         /\ seen_keys' = st.keys
         /\ last_update' = st.upd
         /\ player_online' = st.online
         /\ last_positions' = st.pos
         /\ idle_timers' = st.timers
         /\ idle_notify_intervals' = st.intervals
         /\ movement_trail' = st.trail
         /\ notes' = st.notes
         /\ pending' = pending \o st.notes
  /\ pollWake' = now' + PollPeriod * Res
  /\ lastPoll' = "ok"
  /\ failStreak' = 0
  /\ recovered' = failStreak
  /\ team_info' = members
  /\ UNCHANGED <<proc, restarts, conn, saving, reply, delivered>>

\* ----------------------------------------------------------------- clock
\* nothing is runnable: time passes until the earliest sleep ends
ConnWakes == IF readyPc = "sleep" THEN {connWake} ELSE {}
Wakes == {pollWake, saveWake} \cup ConnWakes
PollWakes == {pollWake} \cup ConnWakes

Advance(wakes, limit) ==
  /\ Loop
  /\ readyPc \notin {"init", "try"}
  /\ \A w \in wakes : w > now
  /\ Min(wakes) <= limit
  /\ now' = Min(wakes)
  /\ UNCHANGED <<proc, restarts, chat, tracking, conn, saving, polling>>

\* ----------------------------------------------------------- team rosters
Member(sid, name, online, x, y) ==
  [steam_id |-> sid, name |-> name, is_online |-> online, x |-> x, y |-> y]

\* coordinates in half units: x = 0.0, 0.5, 1.5 and y = 1.0
XCoords == {0, 1, 3}
YCoords == {2}

Members == [steam_id : Ids, name : Names, is_online : BOOLEAN,
            x : XCoords, y : YCoords]

\* the rosters of Spec: the whole team, still or moved / logged out / renamed
SmallRosters ==
  { <<Member(7, "A", TRUE, 0, 2), Member(17, "B", TRUE, 0, 2)>>,
    <<Member(7, "B", TRUE, 3, 2), Member(17, "B", FALSE, 0, 2)>> }

\* the rosters of TrackSpec: any one member
TrackRosters == {<<m>> : m \in Members}

\* ------------------------------- one run of the program: the three loops
Next ==
  \/ on_ready
  \/ ConnectOk
  \/ \E b \in BOOLEAN : ConnectFail(b)
  \/ ConnectWake
  \/ SaveOpen
  \/ SaveOpenFail
  \/ SaveDump
  \/ SaveDumpFail
  \/ PollFail(0)
  \/ PollEmpty(0)
  \/ \E members \in SmallRosters : PollOk(members, 0)
  \/ Advance(Wakes, MaxTime * Res)

Spec == Init /\ [][Next]_vars

\* ------------------------------------ the program killed and started again
RestartNext ==
  \/ Kill
  \/ Start
  \/ on_ready
  \/ ConnectOk
  \/ \E b \in BOOLEAN : ConnectFail(b)
  \/ ConnectWake
  \/ SaveOpen
  \/ SaveOpenFail
  \/ SaveDump
  \/ SaveDumpFail
  \/ PollFail(0)
  \/ PollEmpty(0)
  \/ \E members \in SmallRosters : PollOk(members, 0)
  \/ Advance(Wakes, RestartMaxTime * Res)

RestartSpec == Init /\ [][RestartNext]_vars

\* ------------------------- the polling loop alone, on a socket that connects
TrackNext ==
  \/ on_ready
  \/ ConnectOk
  \/ \E lat \in Latency : PollFail(lat)
  \/ \E lat \in Latency : PollEmpty(lat)
  \/ \E members \in TrackRosters, lat \in Latency : PollOk(members, lat)
  \/ Advance(PollWakes, TrackMaxTime * Res)

TrackSpec == Init /\ [][TrackNext]_vars

\* ------------------- the polling loop alone, one member who is always online
IdleRosters == {<<Member(7, "A", TRUE, x, 2)>> : x \in {0, 3}}

\* the number of position changes recorded in a trail
RECURSIVE Moves(_)
Moves(trail) ==
  IF Len(trail) < 2 THEN 0
  ELSE Moves(SubSeq(trail, 1, Len(trail) - 1))
       + (IF trail[Len(trail)][2] # trail[Len(trail) - 1][2] THEN 1 ELSE 0)

Stays(m) ==
  Get(last_positions, m.steam_id, <<Round(m.x), Round(m.y)>>)
    = <<Round(m.x), Round(m.y)>>

IdleNext ==
  \/ on_ready
  \/ ConnectOk
  \/ \E members \in IdleRosters :
        /\ Stays(members[1]) \/ Moves(Get(movement_trail, 7, <<>>)) < IdleMaxMoves
        /\ PollOk(members, 0)
  \/ Advance(PollWakes, IdleMaxTicks * PollPeriod * Res)

IdleSpec == Init /\ [][IdleNext]_vars

\* ------------------------------------------- the ranking commands
MaxPlayers == 11     \* players in a mapping of TopSpec

\* player_seen.values(), in the mapping's iteration order
Values(seen, keys) == [i \in 1..Len(keys) |-> seen[keys[i]]]

\* ranked[:n]
Take(s, n) == SubSeq(s, 1, IF Len(s) < n THEN Len(s) ELSE n)

\* a ranking in which an element goes in front of the elements of equal key
RECURSIVE InsertBeforeEqual(_, _)
InsertBeforeEqual(s, x) ==
  IF s = <<>> THEN <<x>>
  ELSE IF Head(s).key > x.key THEN <<Head(s)>> \o InsertBeforeEqual(Tail(s), x)
  ELSE <<x>> \o s

RECURSIVE sorted_ties_flipped(_)
sorted_ties_flipped(items) ==
  IF items = <<>> THEN <<>>
  ELSE InsertBeforeEqual(sorted_ties_flipped(SubSeq(items, 1, Len(items) - 1)),
                         items[Len(items)])

\* x goes behind every element whose key is not smaller
RECURSIVE InsertAfterEqual(_, _)
InsertAfterEqual(s, x) ==
  IF s = <<>> THEN <<x>>
  ELSE IF Head(s).key >= x.key THEN <<Head(s)>> \o InsertAfterEqual(Tail(s), x)
  ELSE <<x>> \o s

\* sorted(items, key=..., reverse=True): descending by key; the sort is
\* stable, and reverse=True keeps the original order of equal elements.
\* items are [key, val] pairs, taken from left to right.
RECURSIVE sorted_reverse(_)
sorted_reverse(items) ==
  IF items = <<>> THEN <<>>
  ELSE InsertAfterEqual(sorted_reverse(SubSeq(items, 1, Len(items) - 1)),
                        items[Len(items)])

ActiveKey(d) == d.total - d.idle
IdleKey(d) == d.idle

\* player_seen.values() with the key of top_active / of top_idle
ActiveItems(seen, keys) ==
  [i \in 1..Len(keys) |-> [key |-> ActiveKey(seen[keys[i]]),
                           val |-> Values(seen, keys)[i]]]
IdleItems(seen, keys) ==
  [i \in 1..Len(keys) |-> [key |-> IdleKey(seen[keys[i]]),
                           val |-> Values(seen, keys)[i]]]

\* the lines of a ranking: name and formatted key of the first ten
RankLines(items) ==
  LET top == Take(sorted_reverse(items), TopN)
  IN  [i \in 1..Len(top) |->
         [name |-> top[i].val.name, text |-> format_minutes(top[i].key)]]

\* !topactive
top_active ==
  /\ Loop
  /\ reply' = [cmd |-> "topactive",
               lines |-> RankLines(ActiveItems(player_seen, seen_keys))]
  /\ UNCHANGED <<now, proc, restarts, tracking, conn, saving, polling,
                 pending, delivered>>

\* !topidle
top_idle ==
  /\ Loop
  /\ reply' = [cmd |-> "topidle",
               lines |-> RankLines(IdleItems(player_seen, seen_keys))]
  /\ UNCHANGED <<now, proc, restarts, tracking, conn, saving, polling,
                 pending, delivered>>

\* the names of the players of TopSpec, one per player
PlayerNames == <<"P1", "P2", "P3", "P4", "P5", "P6", "P7", "P8", "P9",
                 "P10", "P11", "P12", "P13">>

\* total and idle seconds of a player of TopSpec
TopStats == {<<60, 0>>, <<60, 60>>}

\* a mapping of up to MaxPlayers players, first seen in ascending or in
\* descending order of their ids
TopInit ==
  /\ \E n \in 0..MaxPlayers : \E f \in [1..n -> TopStats] : \E rev \in BOOLEAN :
       /\ player_seen = [i \in 1..n |->
                           [name |-> PlayerNames[i], first |-> 0, last |-> 0,
                            total |-> f[i][1], idle |-> f[i][2]]]
       /\ seen_keys = [i \in 1..n |-> IF rev THEN n + 1 - i ELSE i]
  /\ now = 0
  /\ proc = "running"
  /\ restarts = 0
  /\ file = NoFile
  /\ last_update = Empty
  /\ player_online = Empty
  /\ last_positions = Empty
  /\ idle_timers = Empty
  /\ idle_notify_intervals = Empty
  /\ movement_trail = Empty
  /\ connected = FALSE
  /\ readyPc = "init"
  /\ retries = 0
  /\ connWake = 0
  /\ pollWake = 0
  /\ saveWake = 0
  /\ savePc = "sleep"
  /\ notes = <<>>
  /\ lastPoll = "none"
  /\ failStreak = 0
  /\ recovered = 0
  /\ team_info = <<>>
  /\ saved = Empty
  /\ reply = NoReply
  /\ pending = <<>>
  /\ delivered = <<>>

TopNext == top_active \/ top_idle

TopSpec == TopInit /\ [][TopNext]_vars

\* ------------------------------------------- the send_to_discord tasks
NotifyMaxTicks == 5  \* horizon of NotifySpec, in polling periods

RemoveAt(s, i) == SubSeq(s, 1, i - 1) \o SubSeq(s, i + 1, Len(s))

\* one of the tasks made by asyncio.create_task(send_to_discord(message))
\* gets past bot.wait_until_ready() and finishes: channel.send(message)
\* returns, or there is no channel and the message is only printed.  The
\* tasks run independently; which of them finishes first is not decided by
\* the program.
send_to_discord(i, channel) ==
  /\ Loop
  /\ readyPc # "init"
  /\ i \in 1..Len(pending)
  /\ pending' = RemoveAt(pending, i)
  /\ delivered' = IF channel THEN Append(delivered, pending[i]) ELSE delivered
  /\ UNCHANGED <<now, proc, restarts, tracking, conn, saving, polling, reply>>

\* the rosters of NotifySpec: one member who stays where they are
NotifyRosters == {<<Member(7, "A", online, 0, 2)>> : online \in BOOLEAN}

NotifyNext ==
  \/ on_ready
  \/ ConnectOk
  \/ \E members \in NotifyRosters : PollOk(members, 0)
  \/ \E i \in 1..Len(pending), channel \in BOOLEAN : send_to_discord(i, channel)
  \/ Advance(PollWakes, NotifyMaxTicks * PollPeriod * Res)

NotifySpec == Init /\ [][NotifyNext]_vars

\* ======================================================================
\* Properties
\* ======================================================================

\* a step of rust_polling_loop: one fetch and what follows it
PollStep == proc = "running" /\ proc' = "running" /\ pollWake' # pollWake

\* the number of notifications of one kind scheduled for one player
Count(ns, kind, sid) ==
  Cardinality({i \in 1..Len(ns) : ns[i].kind = kind /\ ns[i].sid = sid})

\* C1: in every reachable state every player's accumulated idle seconds are
\* at most that player's total seconds.
C1_IdleAtMostTotal ==
  \A sid \in DOMAIN player_seen :
    player_seen[sid].idle <= player_seen[sid].total

\* a player whose idle time and active time have both grown
C1_Witness ==
  \E sid \in DOMAIN player_seen :
    /\ 0 < player_seen[sid].idle
    /\ player_seen[sid].idle < player_seen[sid].total

\* C2: an observation schedules exactly one LoggedIn when the stored flag was
\* false or absent and the observed one is true, exactly one LoggedOut when
\* the stored flag was true and the observed one is false, and neither when
\* the flag is unchanged.
C2_LoginLogoutNotes ==
  [][(PollStep /\ lastPoll' = "ok") =>
       \A i \in 1..Len(team_info') :
         LET m == team_info'[i]
             was == Get(player_online, m.steam_id, FALSE)
         IN  /\ Count(notes', "LoggedIn", m.steam_id)
                  = (IF ~was /\ m.is_online THEN 1 ELSE 0)
             /\ Count(notes', "LoggedOut", m.steam_id)
                  = (IF was /\ ~m.is_online THEN 1 ELSE 0)]_vars

\* the last cycle saw a player go from online to offline and announced it
C2_Witness ==
  /\ lastPoll = "ok"
  /\ \E i \in 1..Len(notes) : notes[i].kind = "LoggedOut"

\* C3: for a player who stays online, the threshold is 5, 10, 20, 40, 60,
\* 60, ... as the idle counter passes each value, an IdleWarning is
\* scheduled exactly when the counter reaches the threshold, and a position
\* change puts the threshold back to 5.
ExpectedThreshold(c) ==
  IF c < 5 THEN 5 ELSE IF c < 10 THEN 10 ELSE IF c < 20 THEN 20
  ELSE IF c < 40 THEN 40 ELSE 60

C3_ThresholdSequence ==
  \A sid \in DOMAIN idle_timers :
    /\ idle_notify_intervals[sid] = ExpectedThreshold(idle_timers[sid])
    /\ (lastPoll = "ok" /\ \E i \in 1..Len(team_info) : team_info[i].steam_id = sid)
         => /\ Count(notes, "IdleWarning", sid)
                 = (IF idle_timers[sid] \in {5, 10, 20, 40, 60} THEN 1 ELSE 0)
            /\ \A i \in 1..Len(notes) :
                 notes[i].kind = "IdleWarning"
                   => notes[i].text = format_minutes(idle_timers[sid] * 60)

\* the threshold has stayed at 60 past the last warning, after a move that
\* had put it back to 5
C3_Witness ==
  /\ 7 \in DOMAIN idle_timers
  /\ idle_timers[7] > 60
  /\ idle_notify_intervals[7] = 60
  /\ Moves(movement_trail[7]) = 1

\* a step of save_player_data_loop that opens the file for writing
SaveStep == proc = "running" /\ savePc = "sleep" /\
            (savePc' = "writing" \/ saveWake' # saveWake)

\* C4: neither loop fetches a roster or writes the file before on_ready has
\* connected to the game server, and after five failed attempts the polling
\* loop never fetches.
C4_NothingBeforeConnect ==
  [][(PollStep \/ SaveStep) => readyPc = "done"]_vars

\* C5: a failed fetch leaves PlayerStats and the presence and idle state as
\* they were and the loop goes on; the next roster that arrives is processed
\* member by member with the usual accounting.
C5_FailedFetchKeepsState ==
  [][PollStep =>
       /\ lastPoll' = "fail" => (tracking' = tracking /\ pollWake' > now')
       /\ lastPoll' = "ok" =>
            \A i \in 1..Len(team_info') :
              LET m == team_info'[i]
                  sid == m.steam_id
              IN  /\ sid \in DOMAIN player_seen'
                  /\ player_online'[sid] = m.is_online
                  /\ last_update'[sid] = now'
                  /\ m.is_online =>
                       /\ player_seen'[sid].last = IntSec(now')
                       /\ player_seen'[sid].total
                            = (IF sid \in DOMAIN player_seen
                               THEN player_seen[sid].total ELSE 0)
                              + IntSec(now' - Get(last_update, sid, now'))
                       /\ Len(movement_trail'[sid])
                            = Len(Get(movement_trail, sid, <<>>)) + 1]_vars

\* three fetches in a row failed and the roster that came next was processed
C5_Witness ==
  /\ lastPoll = "ok"
  /\ recovered >= 3
  /\ Len(team_info) = 2
  /\ \A i \in 1..2 : team_info[i].steam_id \in DOMAIN player_seen

\* C6: whenever the process is started again after being killed, load
\* completes and PlayerStats is the mapping of the last completed save.
C6_LoadRestoresLastSave ==
  [][(proc # "running" /\ restarts' = restarts + 1) =>
       (proc' = "running" /\ player_seen' = saved)]_vars

\* C7: loading a completely written file yields the mapping that was saved,
\* with the same numeric keys and the same field values, and none of the
\* presence, idle and trail maps.
C7_SaveLoadRoundTrip ==
  [][(proc # "running" /\ restarts' = restarts + 1 /\ file.state = "complete") =>
       /\ proc' = "running"
       /\ DOMAIN player_seen' = DOMAIN saved
       /\ DOMAIN player_seen' \subseteq Ids
       /\ \A sid \in DOMAIN saved : player_seen'[sid] = saved[sid]
       /\ last_update' = Empty
       /\ player_online' = Empty
       /\ last_positions' = Empty
       /\ idle_timers' = Empty
       /\ idle_notify_intervals' = Empty
       /\ movement_trail' = Empty]_vars

\* the process was started again and holds both players' accumulated times
\* from the file, before any poll of the new run
C7_Witness ==
  /\ proc = "running"
  /\ restarts = 1
  /\ lastPoll = "none"
  /\ DOMAIN player_seen = {7, 17}
  /\ player_seen[7].total >= 60
  /\ player_seen[17].last >= 60
  /\ movement_trail = Empty

\* C8: after every observation the stored name is the name the observation
\* carried.
C8_NameIsLatest ==
  [][(PollStep /\ lastPoll' = "ok") =>
       \A i \in 1..Len(team_info') :
         player_seen'[team_info'[i].steam_id].name = team_info'[i].name]_vars

\* C9 as stated: after a failed fetch and after an empty roster the loop
\* waits the full 60 seconds.
C9_FullPeriodAfterFailure ==
  [][(PollStep /\ lastPoll' \in {"fail", "empty"}) =>
       pollWake' - now' = PollPeriod * Res]_vars

\* C9 as amended: the wait is 60 seconds after a failed fetch and after a
\* processed roster, 10 seconds after an empty or missing roster, and never
\* depends on how many cycles failed before.
C9_WaitByOutcome ==
  [][PollStep =>
       pollWake' - now'
         = (IF lastPoll' = "empty" THEN EmptyPeriod ELSE PollPeriod) * Res]_vars

\* late in the run an empty roster arrived, and the loop sleeps 10 seconds
C9_Witness ==
  /\ lastPoll = "empty"
  /\ pollWake - now = EmptyPeriod * Res
  /\ now >= 2 * PollPeriod * Res

\* C10: a trail gets exactly one more entry in a processed cycle whose roster
\* shows the player online, none in any other step, and its earlier entries
\* stay as they are.
IsPrefix(a, b) == Len(a) <= Len(b) /\ SubSeq(b, 1, Len(a)) = a

C10_TrailGrowth ==
  [][\A sid \in Ids :
       LET old == Get(movement_trail, sid, <<>>)
           new == Get(movement_trail', sid, <<>>)
           seenOnline == /\ PollStep
                         /\ lastPoll' = "ok"
                         /\ \E i \in 1..Len(team_info') :
                              /\ team_info'[i].steam_id = sid
                              /\ team_info'[i].is_online
       IN  /\ IsPrefix(old, new)
           /\ Len(new) = Len(old) + (IF seenOnline THEN 1 ELSE 0)]_vars

\* a player seen online twice at one position and then offline: two entries
C10_Witness ==
  /\ lastPoll = "ok"
  /\ 7 \in DOMAIN movement_trail
  /\ Len(movement_trail[7]) = 2
  /\ movement_trail[7][1][2] = movement_trail[7][2][2]
  /\ player_online[7] = FALSE

\* the position of a key in the mapping's iteration order
KeyIndex(sid) == CHOOSE i \in 1..Len(seen_keys) : seen_keys[i] = sid

\* the player shown on a line of a ranking (names are distinct in TopSpec)
LinePlayer(line) == CHOOSE sid \in DOMAIN player_seen :
                      player_seen[sid].name = line.name

\* C11: a ranking lists at most ten tracked players, each once, with the
\* formatted key; the keys never increase down the list (total - idle for
\* topactive, idle for topidle); players of equal key stand in the order in
\* which the mapping iterates over them.
C11_RankedStable ==
  reply.cmd \in {"topactive", "topidle"} =>
    LET lines == reply.lines
        K(sid) == IF reply.cmd = "topactive"
                  THEN player_seen[sid].total - player_seen[sid].idle
                  ELSE player_seen[sid].idle
    IN  /\ Len(lines) <= TopN
        /\ \A i \in 1..Len(lines) :
             /\ \E sid \in DOMAIN player_seen : player_seen[sid].name = lines[i].name
             /\ lines[i].text = format_minutes(K(LinePlayer(lines[i])))
        /\ \A i, j \in 1..Len(lines) : i < j =>
             LET a == LinePlayer(lines[i])
                 b == LinePlayer(lines[j])
             IN  /\ a # b
                 /\ K(a) >= K(b)
                 /\ K(a) = K(b) => KeyIndex(a) < KeyIndex(b)

\* a mapping of more than ten players was ranked: ten lines, among them two
\* players of equal key and two of different keys
C11_Witness ==
  /\ reply.cmd = "topidle"
  /\ Len(seen_keys) > TopN
  /\ Len(reply.lines) = TopN
  /\ \E i, j \in 1..TopN :
       /\ i < j
       /\ player_seen[LinePlayer(reply.lines[i])].idle
            = player_seen[LinePlayer(reply.lines[j])].idle
  /\ \E i, j \in 1..TopN :
       player_seen[LinePlayer(reply.lines[i])].idle
         > player_seen[LinePlayer(reply.lines[j])].idle

\* the rounded position of a roster member
MemberPos(m) == <<Round(m.x), Round(m.y)>>

\* a polling cycle that processed a roster
OkStep == PollStep /\ lastPoll' = "ok"

\* C12: the idle counter counts the consecutive polls at an unchanged
\* rounded position: the first handle_idle observation of a player leaves the
\* counter at 0 and the threshold at 5 and schedules no idle notification,
\* and every further online observation at the recorded position adds one.
C12_CounterCountsUnchangedPolls ==
  [][OkStep =>
       \A i \in 1..Len(team_info') :
         LET m == team_info'[i]
             sid == m.steam_id
         IN  m.is_online =>
               IF sid \notin DOMAIN idle_timers
               THEN /\ idle_timers'[sid] = 0
                    /\ idle_notify_intervals'[sid] = FirstThreshold
                    /\ Count(notes', "IdleWarning", sid) = 0
                    /\ Count(notes', "NoLongerIdle", sid) = 0
               ELSE MemberPos(m) = last_positions[sid] =>
                      idle_timers'[sid] = idle_timers[sid] + 1]_vars

\* C13: when handle_idle sees a known player at a rounded position other
\* than the recorded one, it schedules one NoLongerIdle notification exactly
\* if the idle counter was at least 5 before, and in either case leaves the
\* counter at 0, the threshold at 5 and the recorded position at the new one.
C13_MoveResets ==
  [][OkStep =>
       \A i \in 1..Len(team_info') :
         LET m == team_info'[i]
             sid == m.steam_id
         IN  (/\ m.is_online
              /\ sid \in DOMAIN last_positions
              /\ MemberPos(m) # last_positions[sid]) =>
               /\ Count(notes', "NoLongerIdle", sid)
                    = (IF idle_timers[sid] >= 5 THEN 1 ELSE 0)
               /\ idle_timers'[sid] = 0
               /\ idle_notify_intervals'[sid] = 5
               /\ last_positions'[sid] = MemberPos(m)]_vars

\* the player moved after at least five unchanged observations
C13_Witness ==
  /\ lastPoll = "ok"
  /\ Count(notes, "NoLongerIdle", 7) = 1
  /\ idle_timers[7] = 0
  /\ idle_notify_intervals[7] = 5
  /\ last_positions[7] = MemberPos(team_info[1])

\* C14: a NoLongerIdle notification reports the idle spell in the unit of the
\* IdleWarning durations: for an idle counter of c ticks before the move it
\* reports c minutes, as an IdleWarning fired at threshold n reports n minutes.
C14_SameUnit ==
  [][OkStep =>
       \A i \in 1..Len(notes') :
         LET n == notes'[i]
         IN  /\ n.kind = "NoLongerIdle" =>
                  n.text = format_minutes(idle_timers[n.sid] * 60)
             /\ n.kind = "IdleWarning" =>
                  n.text = format_minutes(idle_notify_intervals[n.sid] * 60)]_vars

\* C15 as stated: every observation moves the player's baseline timestamp to
\* the current time; an online observation adds to the total exactly the time
\* elapsed since the player's preceding observation; an offline observation
\* leaves total, idle and last seen as they were.
C15_ExactElapsed ==
  [][OkStep =>
       \A i \in 1..Len(team_info') :
         LET m == team_info'[i]
             sid == m.steam_id
         IN  /\ last_update'[sid] = now'
             /\ (sid \in DOMAIN player_seen /\ sid \in DOMAIN last_update) =>
                  IF m.is_online
                  THEN Res * (player_seen'[sid].total - player_seen[sid].total)
                         = now' - last_update[sid]
                  ELSE /\ player_seen'[sid].total = player_seen[sid].total
                       /\ player_seen'[sid].idle = player_seen[sid].idle
                       /\ player_seen'[sid].last = player_seen[sid].last]_vars

\* C15, amended: every observation moves the player's baseline timestamp to
\* the current time; an online observation adds to the total the whole
\* seconds of the time elapsed since the player's preceding observation (the
\* fraction is dropped; nothing at the first observation); an offline
\* observation leaves total, idle and last seen as they were.
C15_WholeSecondsElapsed ==
  [][OkStep =>
       \A i \in 1..Len(team_info') :
         LET m == team_info'[i]
             sid == m.steam_id
             elapsed == now' - Get(last_update, sid, now')
         IN  /\ last_update'[sid] = now'
             /\ sid \notin DOMAIN player_seen =>
                  player_seen'[sid].total = 0 /\ player_seen'[sid].idle = 0
             /\ sid \in DOMAIN player_seen =>
                  IF m.is_online
                  THEN player_seen'[sid].total
                         = player_seen[sid].total + (elapsed \div Res)
                  ELSE /\ player_seen'[sid].total = player_seen[sid].total
                       /\ player_seen'[sid].idle = player_seen[sid].idle
                       /\ player_seen'[sid].last = player_seen[sid].last]_vars

\* a player first seen at time 0 is online at time 120 with 60 seconds in
\* total: the observation in between was an offline one and moved the baseline
C15_Witness ==
  /\ lastPoll = "ok"
  /\ \E sid \in DOMAIN player_seen :
       /\ player_online[sid]
       /\ player_seen[sid].first = 0
       /\ player_seen[sid].last = 120
       /\ player_seen[sid].total = 60

\* C16: at an online observation the idle seconds grow by the amount added to
\* the total exactly if the idle counter left by the earlier cycles (read
\* before this cycle's handle_idle) is at least 1, and stay as they were
\* otherwise.
C16_IdleAccrual ==
  [][OkStep =>
       \A i \in 1..Len(team_info') :
         LET m == team_info'[i]
             sid == m.steam_id
         IN  (m.is_online /\ sid \in DOMAIN player_seen) =>
               player_seen'[sid].idle - player_seen[sid].idle
                 = (IF Get(idle_timers, sid, 0) >= 1
                    THEN player_seen'[sid].total - player_seen[sid].total
                    ELSE 0)]_vars

\* a player's total grew at an online observation made with no idle counter
\* yet: the counter is 1 afterwards and the idle seconds are still 0
C16_Witness ==
  /\ lastPoll = "ok"
  /\ \E sid \in DOMAIN idle_timers :
       /\ idle_timers[sid] = 1
       /\ player_seen[sid].total > 0
       /\ player_seen[sid].idle = 0

\* for one player, both halves of the processing of the last observation are
\* in the state or neither is: a player recorded as online has a trail point
\* and idle state at least as recent as the presence timestamp, and no trail
\* point is newer than it
BothApplied(sid) ==
  /\ sid \in DOMAIN player_online
  /\ sid \in DOMAIN player_seen
  /\ player_online[sid] =>
       /\ sid \in DOMAIN movement_trail
       /\ sid \in DOMAIN idle_timers
       /\ sid \in DOMAIN last_positions
       /\ movement_trail[sid][Len(movement_trail[sid])][1] >= last_update[sid]
       /\ movement_trail[sid][Len(movement_trail[sid])][2] = last_positions[sid]
  /\ sid \in DOMAIN movement_trail =>
       movement_trail[sid][Len(movement_trail[sid])][1] <= last_update[sid]

\* C17: whenever another coroutine of the event loop (a command handler, the
\* periodic save) can run, every player's processing of the last polling
\* cycle is complete: update_presence and handle_idle are both applied.
C17_ReadersSeeWholeCycles ==
  \A sid \in DOMAIN last_update : BothApplied(sid)

\* the save loop is due right after a cycle that processed one player
\* online and one offline
C17_Witness ==
  /\ Loop
  /\ lastPoll = "ok"
  /\ now >= saveWake
  /\ now > 0
  /\ player_online = (7 :> TRUE @@ 17 :> FALSE)
  /\ Len(movement_trail[7]) >= 2

\* C18: the messages about one player reach the channel in the order in
\* which they were scheduled, whichever send task finishes first: a message
\* arrives only when no message about the same player that was scheduled
\* before it is still on its way; and scheduling does not hold up the polling
\* cycle, which only adds its messages to the ones on their way.
C18_SamePlayerOrder ==
  [][/\ Len(delivered') > Len(delivered) =>
          \E i \in 1..Len(pending) :
            /\ delivered' = Append(delivered, pending[i])
            /\ pending' = RemoveAt(pending, i)
            /\ \A j \in 1..(i - 1) : pending[j].sid # pending[i].sid
     /\ OkStep => (delivered' = delivered /\ pending' = pending \o notes')]_vars

\* the idle state of a player: counter, threshold, recorded position
IdleState(timers, intervals, positions, sid) ==
  <<sid \in DOMAIN timers, Get(timers, sid, 0), Get(intervals, sid, 0),
    Get(positions, sid, <<>>)>>

\* C19: a polling cycle that observes a player offline leaves the player's
\* idle counter, threshold and recorded position as they were; the first
\* online observation after a logout goes on from these values: at the
\* recorded position the counter grows by one and the threshold moves only
\* when the counter reaches it, and at another position the counter starts
\* again from 0 as after any move.
C19_OfflineKeepsIdleState ==
  [][OkStep =>
       \A i \in 1..Len(team_info') :
         LET m == team_info'[i]
             sid == m.steam_id
         IN  /\ ~m.is_online =>
                  IdleState(idle_timers', idle_notify_intervals', last_positions', sid)
                    = IdleState(idle_timers, idle_notify_intervals, last_positions, sid)
             /\ (/\ m.is_online
                 /\ sid \in DOMAIN idle_timers
                 /\ ~player_online[sid]) =>
                  IF MemberPos(m) = last_positions[sid]
                  THEN /\ idle_timers'[sid] = idle_timers[sid] + 1
                       /\ last_positions'[sid] = last_positions[sid]
                       /\ idle_notify_intervals'[sid]
                            = (IF idle_timers'[sid] # idle_notify_intervals[sid]
                               THEN idle_notify_intervals[sid]
                               ELSE IF 2 * idle_notify_intervals[sid] < 60
                               THEN 2 * idle_notify_intervals[sid] ELSE 60)
                  ELSE /\ idle_timers'[sid] = 0
                       /\ last_positions'[sid] = MemberPos(m)
                       /\ idle_notify_intervals'[sid] = 5]_vars

\* a player logged in again at the position held before the logout: the
\* second trail point comes with a counter of 2
C19_Witness ==
  /\ lastPoll = "ok"
  /\ \E sid \in DOMAIN idle_timers :
       /\ Count(notes, "LoggedIn", sid) = 1
       /\ Len(movement_trail[sid]) = 2
       /\ idle_timers[sid] = 2

\* the IdleWarning notifications for a player among ns that come after the
\* last NoLongerIdle for that player, that is, those of the current run of
\* unchanged positions
RECURSIVE WarningsOfRun(_, _)
WarningsOfRun(ns, sid) ==
  IF ns = <<>> THEN 0
  ELSE LET n == ns[Len(ns)]
           front == SubSeq(ns, 1, Len(ns) - 1)
       IN  IF n.sid = sid /\ n.kind = "NoLongerIdle" THEN 0
           ELSE WarningsOfRun(front, sid)
                + (IF n.sid = sid /\ n.kind = "IdleWarning" THEN 1 ELSE 0)

\* C20: in a run of unchanged-position observations the IdleWarning
\* notifications scheduled so far are one for each of the counter values 5,
\* 10, 20, 40 and 60 that the counter has reached, and no others: at most
\* five, and none once the counter has passed 60.  (No send task finishes in
\* IdleSpec, so pending lists every notification scheduled so far.)
C20_WarningsOnlyAtThresholds ==
  \A sid \in DOMAIN idle_timers :
    WarningsOfRun(pending, sid)
      = Cardinality({v \in {5, 10, 20, 40, 60} : v <= idle_timers[sid]})

\* the counter has passed 60 in the first run: five warnings, none in the
\* last cycle
C20_Witness ==
  /\ 7 \in DOMAIN idle_timers
  /\ idle_timers[7] = 62
  /\ WarningsOfRun(pending, 7) = 5
  /\ Count(pending, "NoLongerIdle", 7) = 0
  /\ notes = <<>>

====
